---- MODULE Spec2Model ----
(***************************************************************************)
(* Model of stock_app.py: the strategy scan triggered by the scan button   *)
(* (lines 250-370), the trade-setup calculator (lines 80-117) and the      *)
(* helpers they call.                                                      *)
(*                                                                         *)
(* Text is modelled as a sequence of characters, one string per character. *)
(* The module is plain ASCII, so every CJK character or emoji of a         *)
(* strategy label is written as one romanised token ("jun" "xian" for the  *)
(* two characters of the moving-average needle, and so on); a token stands *)
(* for exactly one character, so substring tests behave as in the source.  *)
(*                                                                         *)
(* Floating-point numbers are modelled as exact rationals [num, den] with  *)
(* in lowest terms; den = 0 encodes the IEEE specials (num = 0: NaN,       *)
(* num = 1: +inf, num = -1: -inf).  Rounding error of binary floats is not *)
(* modelled.                                                               *)
(***************************************************************************)
EXTENDS Integers, Sequences, FiniteSets, TLC

(***************************************************************************)
(* Rational arithmetic with IEEE specials.                                 *)
(***************************************************************************)
RSign(n) == IF n > 0 THEN 1 ELSE IF n < 0 THEN -1 ELSE 0

Abs(n) == IF n < 0 THEN 0 - n ELSE n

RECURSIVE GCD(_, _)
GCD(a, b) == IF b = 0 THEN a ELSE GCD(b, a % b)

\* the number n/d in lowest terms with a positive denominator
R(n, d) ==
    IF d = 0 THEN [num |-> RSign(n), den |-> 0]
    ELSE LET g == GCD(Abs(n), Abs(d))
         IN [num |-> (RSign(d) * n) \div g, den |-> Abs(d) \div g]

RInt(n) == R(n, 1)

NaN == R(0, 0)

IsNaN(a) == a.den = 0 /\ a.num = 0

RLt(a, b) ==
    IF IsNaN(a) \/ IsNaN(b) THEN FALSE
    ELSE IF a.den = 0 THEN a.num < 0 /\ ~(b.den = 0 /\ b.num < 0)
    ELSE IF b.den = 0 THEN b.num > 0
    ELSE a.num * b.den < b.num * a.den

RGt(a, b) == RLt(b, a)

RLe(a, b) ==
    IF IsNaN(a) \/ IsNaN(b) THEN FALSE
    ELSE IF a.den = 0 /\ b.den = 0 THEN a.num <= b.num
    ELSE ~RLt(b, a)

RGe(a, b) == RLe(b, a)

RAdd(a, b) ==
    IF IsNaN(a) \/ IsNaN(b) THEN NaN
    ELSE IF a.den = 0 /\ b.den = 0 THEN (IF a.num = b.num THEN a ELSE NaN)
    ELSE IF a.den = 0 THEN a
    ELSE IF b.den = 0 THEN b
    ELSE R(a.num * b.den + b.num * a.den, a.den * b.den)

RNeg(a) == [num |-> 0 - a.num, den |-> a.den]

RSub(a, b) == RAdd(a, RNeg(b))

RMul(a, b) == R(a.num * b.num, a.den * b.den)

RDiv(a, b) ==
    IF a.den = 0 /\ b.den = 0 THEN NaN
    ELSE IF a.den = 0 THEN R(a.num * (IF b.num < 0 THEN -1 ELSE 1), 0)
    ELSE R(a.num * b.den, a.den * b.num)

(***************************************************************************)
(* Sequences: slices, sums, extrema.                                       *)
(***************************************************************************)
\* folds over s[lo..hi], halving the range so that long columns stay shallow
RECURSIVE SumRange(_, _, _)
SumRange(s, lo, hi) ==
    IF lo > hi THEN 0
    ELSE IF lo = hi THEN s[lo]
    ELSE LET mid == (lo + hi) \div 2
         IN SumRange(s, lo, mid) + SumRange(s, mid + 1, hi)

RECURSIVE MinRange(_, _, _)
MinRange(s, lo, hi) ==
    IF lo = hi THEN s[lo]
    ELSE LET mid == (lo + hi) \div 2
             a == MinRange(s, lo, mid)
             b == MinRange(s, mid + 1, hi)
         IN IF a < b THEN a ELSE b

RECURSIVE MaxRange(_, _, _)
MaxRange(s, lo, hi) ==
    IF lo = hi THEN s[lo]
    ELSE LET mid == (lo + hi) \div 2
             a == MaxRange(s, lo, mid)
             b == MaxRange(s, mid + 1, hi)
         IN IF a > b THEN a ELSE b

SeqSum(s) == SumRange(s, 1, Len(s))

SeqMin(s) == MinRange(s, 1, Len(s))

SeqMax(s) == MaxRange(s, 1, Len(s))

\* s.iloc[-k:] : the last k elements, or all of s when it is shorter
LastN(s, k) == IF Len(s) <= k THEN s ELSE SubSeq(s, Len(s) - k + 1, Len(s))

\* s.iloc[-a:-b] for a > b > 0
SliceFromEnd(s, a, b) ==
    LET lo == IF Len(s) <= a THEN 1 ELSE Len(s) - a + 1
        hi == Len(s) - b
    IN IF hi < lo THEN <<>> ELSE SubSeq(s, lo, hi)

\* Series.mean(): NaN on an empty series
Mean(s) == IF s = <<>> THEN NaN ELSE R(SeqSum(s), Len(s))

\* Series.rolling(w).mean().iloc[-1]: NaN until w observations exist
RollingMeanLast(s, w) == IF Len(s) < w THEN NaN ELSE R(SeqSum(LastN(s, w)), w)

(***************************************************************************)
(* Text: strip, upper, replace, endswith, isdigit, substring.              *)
(***************************************************************************)
Digits == {"0", "1", "2", "3", "4", "5", "6", "7", "8", "9"}

UpperChar(c) ==
    CASE c = "t" -> "T"
      [] c = "w" -> "W"
      [] c = "o" -> "O"
      [] OTHER -> c

Upper(s) == [k \in 1..Len(s) |-> UpperChar(s[k])]

RECURSIVE Strip(_)
Strip(s) ==
    IF s = <<>> THEN s
    ELSE IF Head(s) = " " THEN Strip(Tail(s))
    ELSE IF s[Len(s)] = " " THEN Strip(SubSeq(s, 1, Len(s) - 1))
    ELSE s

StartsWith(s, p) == Len(s) >= Len(p) /\ SubSeq(s, 1, Len(p)) = p

EndsWith(s, p) == Len(s) >= Len(p) /\ SubSeq(s, Len(s) - Len(p) + 1, Len(s)) = p

\* str.replace(p, ""): every non-overlapping occurrence, left to right
RECURSIVE Remove(_, _)
Remove(s, p) ==
    IF s = <<>> THEN s
    ELSE IF StartsWith(s, p) THEN Remove(SubSeq(s, Len(p) + 1, Len(s)), p)
    ELSE <<Head(s)>> \o Remove(Tail(s), p)

IsDigit(s) == s # <<>> /\ \A k \in 1..Len(s) : s[k] \in Digits

\* needle in hay
Contains(hay, needle) ==
    \E k \in 0..(Len(hay) - Len(needle)) :
        SubSeq(hay, k + 1, k + Len(needle)) = needle

(***************************************************************************)
(* The five scan-mode labels and the needles the dispatch looks for.       *)
(***************************************************************************)
ModeVCP ==
    <<"magnifier", " ", "V", "C", "P", " ", "zhun", "tu", "po", " ",
      "(", "liang", "suo", "jia", "wen", ")">>

ModeFourLine ==
    <<"rocket", " ", "si", "xian", "he", "yi", "+", "bao", "liang", " ",
      "(", "qiang", "shi", "qi", "zhang", ")">>

ModeValue ==
    <<"moneybag", " ", "jia", "zhi", "di", "gu", " ",
      "(", "P", "E", " ", "<", " ", "2", "0", ")">>

ModeMA ==
    <<"chart", " ", "jun", "xian", "duo", "tou", " ",
      "(", "V", "C", "P", " ", "qu", "shi", ")">>

ModeVolume ==
    <<"fire", " ", "liang", "neng", "bao", "fa", " ",
      "(", "duan", "xian", "dong", "neng", ")">>

StrategyModes == {ModeVCP, ModeFourLine, ModeValue, ModeMA, ModeVolume}

KeyVCP == <<"V", "C", "P">>

KeyMA == <<"jun", "xian">>

KeyFourLine == <<"si", "xian">>

KeyVolume == <<"liang", "neng">>

KeyValue == <<"jia", "zhi">>

(***************************************************************************)
(* Bounded inputs.                                                         *)
(***************************************************************************)
\* longest watchlist selection handed to the scan
MaxInput == 2

\* fewest daily bars a ticker needs to be evaluated, line 274
MinHistory == 120

\* most quarterly EPS rows the provider returns in the 600-day window
MaxQuarters == 5

\* codes the user may have selected: a plain id, an id with a lower-case
\* exchange suffix, and an id with the .TWO suffix
RawCodes ==
    { <<"1", "1">>,
      <<"2", "2", ".", "t", "w">>,
      <<"3", ".", "T", "W", "O">> }

\* the selection is a list of distinct options (st.multiselect)
UserInputs ==
    { u \in UNION { [1..n -> RawCodes] : n \in 0..MaxInput } :
        \A a, b \in DOMAIN u : a # b => u[a] # u[b] }

\* slider positions tried for each parameter
ConsolidationChoices == {5, 10}

TightnessChoices == {R(6, 200), R(16, 200)}

VolFactorChoices == {R(20, 10), R(50, 10)}

PeLimitChoices == {RInt(10), RInt(20)}

(***************************************************************************)
(* Sidebar parameters, lines 239-247.                                      *)
(***************************************************************************)
DefaultParams ==
    [ vol_factor |-> R(20, 10), consolidation_days |-> 10,
      price_tightness |-> R(8, 100), pe_limit |-> R(200, 10) ]

ParamChoices(mode) ==
    IF Contains(mode, KeyVCP)
    THEN { [DefaultParams EXCEPT !.consolidation_days = d, !.price_tightness = t] :
             d \in ConsolidationChoices, t \in TightnessChoices }
    ELSE IF Contains(mode, KeyVolume)
    THEN { [DefaultParams EXCEPT !.vol_factor = f] : f \in VolFactorChoices }
    ELSE IF Contains(mode, KeyValue)
    THEN { [DefaultParams EXCEPT !.pe_limit = l] : l \in PeLimitChoices }
    ELSE { DefaultParams }

(***************************************************************************)
(* Ticker validation, lines 251-256.                                       *)
(***************************************************************************)
DotTW == <<".", "T", "W">>

DotTWO == <<".", "T", "W", "O">>

DotZero == <<".", "0">>

CleanCode(raw) ==
    LET s1 == Remove(Remove(raw, DotTW), DotTWO)
    IN IF EndsWith(s1, DotZero) THEN SubSeq(s1, 1, Len(s1) - 2) ELSE s1

\* raw_stocks: stripped, upper-cased, empty entries dropped
RECURSIVE RawStocks(_)
RawStocks(u) ==
    IF u = <<>> THEN <<>>
    ELSE (IF Strip(Head(u)) # <<>> THEN <<Upper(Strip(Head(u)))>> ELSE <<>>)
         \o RawStocks(Tail(u))

RECURSIVE ValidStocks(_)
ValidStocks(raw) ==
    IF raw = <<>> THEN <<>>
    ELSE (IF IsDigit(CleanCode(Head(raw))) THEN <<CleanCode(Head(raw))>> ELSE <<>>)
         \o ValidStocks(Tail(raw))

(***************************************************************************)
(* Data frames.  A frame is a function from column names to columns, all   *)
(* columns of one length; the frame without columns is the empty frame.    *)
(***************************************************************************)
EmptyFrame == [c \in {} |-> <<>>]

Columns(df) == DOMAIN df

\* len(df)
Rows(df) == IF Columns(df) = {} THEN 0 ELSE Len(df[CHOOSE c \in Columns(df) : TRUE])

\* str.lower() on the column names the provider uses
LowerName(c) ==
    CASE c = "Trading_Volume" -> "trading_volume"
      [] c = "Volume" -> "volume"
      [] c = "Close" -> "close"
      [] OTHER -> c

\* df.columns = [c.lower() for c in df.columns], line 275
LowerColumns(df) ==
    [c \in {LowerName(k) : k \in Columns(df)} |->
        df[CHOOSE k \in Columns(df) : LowerName(k) = c]]

\* get_volume_column, lines 58-62; "None" stands for Python's None
VolumeCandidates == <<"volume", "trading_volume", "cheng_jiao_gu_shu", "cheng_jiao_zhang_shu">>

get_volume_column(df) ==
    IF \E k \in 1..Len(VolumeCandidates) : VolumeCandidates[k] \in Columns(df)
    THEN VolumeCandidates[CHOOSE k \in 1..Len(VolumeCandidates) :
            /\ VolumeCandidates[k] \in Columns(df)
            /\ \A j \in 1..(k - 1) : VolumeCandidates[j] \notin Columns(df)]
    ELSE "None"

(***************************************************************************)
(* Provider answers drawn for the daily-bar request.  p counts bars back   *)
(* from the most recent one (p = 0 is today).                              *)
(***************************************************************************)
CloseAt(p, c0, c1, c4) ==
    IF p = 0 THEN c0 ELSE IF p <= 4 THEN c1 ELSE IF p <= 59 THEN 100 ELSE c4

VolAt(p, v0, v1, v2) == IF p = 0 THEN v0 ELSE IF p <= 20 THEN v1 ELSE v2

Frame(n, c0, c1, c4, v0, v1, v2) ==
    LET closes == [k \in 1..n |-> CloseAt(n - k, c0, c1, c4)]
        vols == [k \in 1..n |-> VolAt(n - k, v0, v1, v2)]
    IN [c \in {"date", "open", "max", "min", "close", "Trading_Volume"} |->
          CASE c = "date" -> [k \in 1..n |-> k]
            [] c = "Trading_Volume" -> vols
            [] OTHER -> closes]

Without(df, col) == [c \in Columns(df) \ {col} |-> df[c]]

BaseFrame == Frame(200, 104, 100, 80, 300, 100, 300)

RegularFrames ==
    { Frame(200, c0, c1, c4, v0, 100, v2) :
        c0 \in {100, 104}, c1 \in {90, 100}, c4 \in {80, 130},
        v0 \in {50, 100, 300}, v2 \in {10, 300} }
    \cup
    { Frame(n, 104, 100, 80, v[1], 100, v[2]) :
        n \in {MinHistory, 199, 260}, v \in {<<300, 300>>, <<50, 10>>} }

SpecialFrames ==
    { EmptyFrame,
      Frame(MinHistory - 1, 104, 100, 80, 300, 100, 300),
      Without(BaseFrame, "Trading_Volume"),
      Without(BaseFrame, "close"),
      Without(BaseFrame, "open"),
      [c \in Columns(BaseFrame) \cup {"Volume"} |->
          IF c = "Volume" THEN [k \in 1..200 |-> VolAt(200 - k, 50, 100, 10)]
          ELSE BaseFrame[c]],
      Frame(200, 104, 0, 80, 300, 100, 300),
      Frame(200, 104, 100, 80, 300, 0, 300) }

\* taiwan_stock_daily either raises or returns a frame
DailyAnswers ==
    { [raises |-> TRUE, df |-> EmptyFrame] }
    \cup { [raises |-> FALSE, df |-> f] : f \in RegularFrames \cup SpecialFrames }

(***************************************************************************)
(* Provider answers for the financial statements and news requests.        *)
(***************************************************************************)
FinRow(t, d, v) == [type |-> t, date |-> d, value |-> v]

\* n quarterly EPS rows (newest first) followed by a revenue row
FinTable(n, e) ==
    [k \in 1..(n + 1) |->
        IF k = n + 1 THEN FinRow("Revenue", 0, 900)
        ELSE FinRow("BasicEarningsPerShare", n + 1 - k,
                    IF k = n /\ n > 4 THEN 50 ELSE e)]

FinAnswers ==
    { [raises |-> TRUE, rows |-> <<>>] }
    \cup { [raises |-> FALSE, rows |-> FinTable(n, e)] :
             n \in 0..MaxQuarters, e \in {-3, 2} }

NewsRow(d, t) == [date |-> d, title |-> t, link |-> t]

NewsAnswers ==
    { [raises |-> TRUE, rows |-> <<>>],
      [raises |-> FALSE, rows |-> <<>>],
      [raises |-> FALSE,
       rows |-> <<NewsRow(1, "a"), NewsRow(2, "b"), NewsRow(3, "a"),
                  NewsRow(4, "c"), NewsRow(5, "d")>>] }

(***************************************************************************)
(* Indicators, lines 279-289.                                              *)
(***************************************************************************)
Last(s) == s[Len(s)]

Indicators(df, vol_col) ==
    LET close == df["close"]
        avg == Mean(SliceFromEnd(df[vol_col], 21, 1))
        curr == RInt(Last(df[vol_col]))
    IN [ price |-> RInt(Last(close)),
         ma5 |-> RollingMeanLast(close, 5),
         ma10 |-> RollingMeanLast(close, 10),
         ma20 |-> RollingMeanLast(close, 20),
         ma50 |-> RollingMeanLast(close, 50),
         ma60 |-> RollingMeanLast(close, 60),
         ma200 |-> RollingMeanLast(close, 200),
         avg_vol_20 |-> avg,
         curr_vol |-> curr,
         vol_ratio |-> IF RGt(avg, RInt(0)) THEN RDiv(curr, avg) ELSE RInt(0) ]

(***************************************************************************)
(* Strategy evaluators, lines 293-319.                                     *)
(***************************************************************************)
\* which branch of the if/elif chain a mode label selects
Branch(mode) ==
    IF Contains(mode, KeyVCP) THEN "VCP"
    ELSE IF Contains(mode, KeyFourLine) THEN "FourLine"
    ELSE IF Contains(mode, KeyValue) THEN "Value"
    ELSE IF Contains(mode, KeyMA) THEN "MA"
    ELSE IF Contains(mode, KeyVolume) THEN "Volume"
    ELSE "None"

\* amp, line 295
Amplitude(df, days) ==
    LET recent == LastN(df["close"], days)
    IN RDiv(RInt(SeqMax(recent) - SeqMin(recent)), RInt(SeqMin(recent)))

\* is_vol_dry with both conditions required
IsVolDryBoth(df, vol_col, days, ind) ==
    /\ RLt(Mean(LastN(df[vol_col], days)), Mean(LastN(df[vol_col], 60)))
    /\ RLt(ind.curr_vol, ind.avg_vol_20)

\* is_vol_dry, line 296
IsVolDry(df, vol_col, days, ind) ==
    \/ RLt(Mean(LastN(df[vol_col], days)), Mean(LastN(df[vol_col], 60)))
    \/ RLt(ind.curr_vol, ind.avg_vol_20)

MatchVCP(df, vol_col, ind, params) ==
    /\ RGt(ind.price, ind.ma200)
    /\ RLe(Amplitude(df, params.consolidation_days), params.price_tightness)
    /\ IsVolDry(df, vol_col, params.consolidation_days, ind)

MatchFourLine(ind) ==
    /\ RGe(ind.vol_ratio, R(20, 10))
    /\ RGt(ind.price, ind.ma5)
    /\ RGt(ind.price, ind.ma10)
    /\ RGt(ind.price, ind.ma20)
    /\ RGt(ind.price, ind.ma60)

MatchMA(ind) == RGt(ind.price, ind.ma50) /\ RGt(ind.ma50, ind.ma200)

MatchVolume(ind, params) == RGe(ind.vol_ratio, params.vol_factor)

\* sort_values('date'): ascending insertion sort
RECURSIVE InsertByDate(_, _)
InsertByDate(row, s) ==
    IF s = <<>> THEN <<row>>
    ELSE IF row.date < Head(s).date THEN <<row>> \o s
    ELSE <<Head(s)>> \o InsertByDate(row, Tail(s))

RECURSIVE SortByDate(_)
SortByDate(s) ==
    IF s = <<>> THEN <<>> ELSE InsertByDate(Head(s), SortByDate(Tail(s)))

IsEpsRow(row) == row.type = "BasicEarningsPerShare"

\* df_eps, line 308
EpsTail(rows) == LastN(SortByDate(SelectSeq(rows, IsEpsRow)), 4)

RECURSIVE SumValues(_)
SumValues(rows) == IF rows = <<>> THEN 0 ELSE Head(rows).value + SumValues(Tail(rows))

\* lines 309-312
MatchValue(ind, df_eps, params) ==
    LET ttm_eps == RInt(SumValues(df_eps))
    IN /\ RGt(ttm_eps, RInt(0))
       /\ RLt(RDiv(ind.price, ttm_eps), params.pe_limit)

MatchReason(branch) ==
    CASE branch = "VCP" -> "VCP price stable, volume dry"
      [] branch = "FourLine" -> "four lines aligned + volume surge"
      [] branch = "Value" -> "PE"
      [] branch = "MA" -> "bullish stack"
      [] branch = "Volume" -> "volume surge"
      [] OTHER -> ""

(***************************************************************************)
(* calculate_trade_setup, lines 80-117.                                    *)
(***************************************************************************)
SetupBranch(mode) ==
    IF Contains(mode, KeyVCP) THEN "VCP"
    ELSE IF Contains(mode, KeyMA) \/ Contains(mode, KeyFourLine) THEN "MA"
    ELSE "Other"

\* take_profit and risk_reward from the entry, the stop and the close
Target(buy, stop, price) ==
    LET risk == RSub(buy, stop)
    IN IF RGt(risk, RInt(0))
       THEN [ take_profit |-> RAdd(buy, RMul(risk, RInt(2))), risk_reward |-> "2.0" ]
       ELSE [ take_profit |-> RMul(price, R(11, 10)), risk_reward |-> "N/A" ]

calculate_trade_setup(df, mode) ==
    LET price == RInt(Last(df["close"]))
        low_recent == RInt(SeqMin(LastN(df["close"], 10)))
        ma5 == RollingMeanLast(df["close"], 5)
        ma20 == RollingMeanLast(df["close"], 20)
        b == SetupBranch(mode)
        buy == IF b = "MA" THEN ma5 ELSE price
        stop == IF b = "VCP" THEN RMul(low_recent, R(98, 100))
                ELSE IF b = "MA" THEN RMul(ma20, R(98, 100))
                ELSE RMul(price, R(93, 100))
        t == Target(buy, stop, price)
    IN [ buy_price |-> buy, stop_loss |-> stop,
         take_profit |-> t.take_profit, risk_reward |-> t.risk_reward ]

(***************************************************************************)
(* get_stock_news, lines 65-77.                                            *)
(***************************************************************************)
\* drop_duplicates(subset=['title']): the first row of each title is kept
RECURSIVE DropDuplicateTitles(_, _)
DropDuplicateTitles(rows, seen) ==
    IF rows = <<>> THEN <<>>
    ELSE IF Head(rows).title \in seen THEN DropDuplicateTitles(Tail(rows), seen)
    ELSE <<Head(rows)>> \o DropDuplicateTitles(Tail(rows), seen \cup {Head(rows).title})

Reverse(s) == [k \in 1..Len(s) |-> s[Len(s) + 1 - k]]

get_stock_news(answer) ==
    IF answer.raises \/ answer.rows = <<>> THEN <<>>
    ELSE Reverse(LastN(DropDuplicateTitles(answer.rows, {}), 3))

\* columns plot_vcp_chart reads, lines 121-153
ChartColumns == {"date", "open", "max", "min", "close"}

(***************************************************************************)
(* State of one scan run.                                                  *)
(***************************************************************************)
VARIABLES
    strategy_mode,   \* label chosen in the sidebar radio
    params,          \* vol_factor, consolidation_days, price_tightness, pe_limit
    user_input,      \* the selected codes, before validation
    stocks,          \* validated ticker list
    i,               \* 1-based position of the loop in stocks
    pc,              \* where the run is
    df,              \* daily bars of the current ticker
    vol_col,         \* its volume column
    ind,             \* price, moving averages and volume figures
    df_eps,          \* the EPS rows summed by the valuation branch
    is_match,
    match_reason,
    setup,           \* trade plan of the current match
    news_items,
    found_any,
    error_msgs,      \* diagnostics collected by the except clause
    error_log,       \* what the debug expander shows
    progress,        \* value of the progress bar
    notices,         \* st.error / st.info / st.warning messages, in order
    cards,           \* result expanders shown, in order
    calls,           \* sleeps and provider requests, in order
    failures         \* history: per-ticker failures that occurred, in order

vars ==
    << strategy_mode, params, user_input, stocks, i, pc, df, vol_col, ind,
       df_eps, is_match, match_reason, setup, news_items, found_any,
       error_msgs, error_log, progress, notices, cards, calls, failures >>

config == << strategy_mode, params, user_input >>

locals == << df, vol_col, ind, df_eps, is_match, match_reason, setup, news_items >>

NoInd ==
    [ price |-> NaN, ma5 |-> NaN, ma10 |-> NaN, ma20 |-> NaN, ma50 |-> NaN,
      ma60 |-> NaN, ma200 |-> NaN, avg_vol_20 |-> NaN, curr_vol |-> NaN,
      vol_ratio |-> NaN ]

\* the dictionary calculate_trade_setup starts from, lines 86-91
NoSetup ==
    [ buy_price |-> RInt(0), stop_loss |-> RInt(0), take_profit |-> RInt(0),
      risk_reward |-> "" ]

\* the per-ticker variables carry nothing from one ticker to the next: each
\* is assigned before it is read, so they are reset when a ticker is left
LocalsCleared ==
    /\ df' = EmptyFrame
    /\ vol_col' = "None"
    /\ ind' = NoInd
    /\ df_eps' = <<>>
    /\ is_match' = FALSE
    /\ match_reason' = ""
    /\ setup' = NoSetup
    /\ news_items' = <<>>

Init ==
    /\ strategy_mode \in StrategyModes
    /\ params \in ParamChoices(strategy_mode)
    /\ user_input \in UserInputs
    /\ stocks = <<>>
    /\ i = 1
    /\ pc = "idle"
    /\ df = EmptyFrame
    /\ vol_col = "None"
    /\ ind = NoInd
    /\ df_eps = <<>>
    /\ is_match = FALSE
    /\ match_reason = ""
    /\ setup = NoSetup
    /\ news_items = <<>>
    /\ found_any = FALSE
    /\ error_msgs = <<>>
    /\ error_log = <<>>
    /\ progress = RInt(0)
    /\ notices = <<>>
    /\ cards = <<>>
    /\ calls = <<>>
    /\ failures = <<>>

\* the try of line 272 moved below the daily-bar request
TryCoversAfterFetch(site) == site \in {"evaluate", "render"}

\* the statements of the loop body enclosed by the try of line 272
TryCovers(site) == site \in {"fetch", "evaluate", "render"}

\* where the loop goes once ticker k of n is left
AfterTicker(k, n) == IF k + 1 > n THEN "finish" ELSE "sleep"

\* one entry of the request history: a delay or a provider request made
\* while ticker i is processed
Call(op) == [op |-> op, sid |-> stocks[i]]

Diagnostic(sid, e) == [sid |-> sid, e |-> e]

Failure(k, kind) == [idx |-> k, kind |-> kind]

\* an exception raised at a site of the loop body: the except clause of
\* lines 364-365 records it, or it leaves the script
Raise(site, e) ==
    IF TryCovers(site)
    THEN /\ error_msgs' = Append(error_msgs, Diagnostic(stocks[i], e))
         /\ pc' = "progress"
    ELSE /\ error_msgs' = error_msgs
         /\ pc' = "crashed"

(***************************************************************************)
(* Lines 250-265: the button validates the codes and reports the count.    *)
(***************************************************************************)
ClickScan ==
    /\ pc = "idle"
    /\ stocks' = ValidStocks(RawStocks(user_input))
    /\ notices' = Append(notices,
                    IF stocks' = <<>> THEN "error: no valid codes" ELSE "info: loaded")
    /\ progress' = RInt(0)
    /\ found_any' = FALSE
    /\ error_msgs' = <<>>
    /\ i' = 1
    /\ pc' = IF stocks' = <<>> THEN "finish" ELSE "sleep"
    /\ UNCHANGED << config, locals, error_log, cards, calls, failures >>

(***************************************************************************)
(* Lines 267-270: loop head, status text and the inter-request delay.      *)
(***************************************************************************)
Sleep ==
    /\ pc = "sleep"
    /\ calls' = Append(calls, Call("sleep"))
    /\ pc' = "fetch"
    /\ UNCHANGED << config, stocks, i, locals, found_any, error_msgs, error_log,
                    progress, notices, cards, failures >>

(***************************************************************************)
(* Lines 272-277: daily bars, length check, volume column.                 *)
(***************************************************************************)
FetchDaily ==
    /\ pc = "fetch"
    /\ calls' = Append(calls, Call("daily"))
    /\ \E a \in DailyAnswers :
         IF a.raises
         THEN /\ Raise("fetch", "ProviderUnavailable")
              /\ failures' = Append(failures, Failure(i, "ProviderUnavailable"))
              /\ UNCHANGED << i, locals >>
         ELSE IF Rows(a.df) = 0 \/ Rows(a.df) < MinHistory
         THEN \* continue
              /\ failures' = Append(failures, Failure(i, "InsufficientHistory"))
              /\ i' = i + 1
              /\ pc' = AfterTicker(i, Len(stocks))
              /\ UNCHANGED << locals, error_msgs >>
         ELSE IF get_volume_column(LowerColumns(a.df)) = "None"
         THEN \* continue
              /\ failures' = Append(failures, Failure(i, "MissingVolumeColumn"))
              /\ i' = i + 1
              /\ pc' = AfterTicker(i, Len(stocks))
              /\ UNCHANGED << locals, error_msgs >>
         ELSE /\ df' = LowerColumns(a.df)
              /\ vol_col' = get_volume_column(LowerColumns(a.df))
              /\ pc' = "evaluate"
              /\ UNCHANGED << i, ind, df_eps, is_match, match_reason, setup,
                              news_items, error_msgs, failures >>
    /\ UNCHANGED << config, stocks, found_any, error_log, progress, notices, cards >>

(***************************************************************************)
(* Lines 279-319: indicators and the evaluator the mode label selects.     *)
(* The valuation branch sleeps, requests the financial statements and      *)
(* swallows whatever that raises (except: pass).                           *)
(***************************************************************************)
Evaluate ==
    /\ pc = "evaluate"
    /\ IF "close" \notin Columns(df)
       THEN /\ Raise("evaluate", "KeyError: close")
            /\ failures' = Append(failures, Failure(i, "KeyError"))
            /\ UNCHANGED << ind, df_eps, is_match, match_reason, calls >>
       ELSE LET now == Indicators(df, vol_col)
                branch == Branch(strategy_mode)
            IN /\ ind' = now
               /\ error_msgs' = error_msgs
               /\ pc' = "evaluated"
               /\ IF branch = "Value"
                  THEN \E f \in FinAnswers :
                         /\ calls' = calls \o <<Call("sleep"), Call("fin")>>
                         /\ df_eps' = IF f.raises THEN <<>> ELSE EpsTail(f.rows)
                         /\ is_match' = (~f.raises /\ MatchValue(now, EpsTail(f.rows), params))
                         /\ failures' =
                              IF f.raises
                              THEN Append(failures, Failure(i, "ProviderUnavailable"))
                              ELSE IF Len(EpsTail(f.rows)) < 4
                              THEN Append(failures, Failure(i, "InsufficientFundamentals"))
                              ELSE failures
                  ELSE /\ is_match' =
                            CASE branch = "VCP" -> MatchVCP(df, vol_col, now, params)
                              [] branch = "FourLine" -> MatchFourLine(now)
                              [] branch = "MA" -> MatchMA(now)
                              [] branch = "Volume" -> MatchVolume(now, params)
                              [] OTHER -> FALSE
                       /\ UNCHANGED << df_eps, calls, failures >>
               /\ match_reason' = IF is_match' THEN MatchReason(branch) ELSE ""
    /\ UNCHANGED << config, stocks, i, df, vol_col, setup, news_items, found_any,
                    error_log, progress, notices, cards >>

(***************************************************************************)
(* Lines 321-362: a match gets its trade plan, its news and its card; the  *)
(* chart needs the OHLC columns and raises KeyError without them.          *)
(***************************************************************************)
OnMatch ==
    /\ pc = "evaluated"
    /\ is_match
    /\ found_any' = TRUE
    /\ setup' = calculate_trade_setup(df, strategy_mode)
    /\ calls' = Append(calls, Call("news"))
    /\ \E n \in NewsAnswers : news_items' = get_stock_news(n)
    /\ cards' = Append(cards, [sid |-> stocks[i], reason |-> match_reason])
    /\ IF ChartColumns \subseteq Columns(df)
       THEN /\ pc' = "progress"
            /\ UNCHANGED << error_msgs, failures >>
       ELSE /\ Raise("render", "KeyError: chart column")
            /\ failures' = Append(failures, Failure(i, "KeyError"))
    /\ UNCHANGED << config, stocks, i, df, vol_col, ind, df_eps, is_match,
                    match_reason, error_log, progress, notices >>

(***************************************************************************)
(* Line 366 and the step to the next ticker.                               *)
(***************************************************************************)
Progress ==
    /\ \/ pc = "progress"
       \/ pc = "evaluated" /\ ~is_match
    /\ progress' = R(i, Len(stocks))
    /\ i' = i + 1
    /\ pc' = AfterTicker(i, Len(stocks))
    /\ LocalsCleared
    /\ UNCHANGED << config, stocks, found_any, error_msgs, error_log, notices,
                    cards, calls, failures >>

(***************************************************************************)
(* Lines 368-370: the debug log and the no-match warning.                  *)
(***************************************************************************)
Finish ==
    /\ pc = "finish"
    /\ error_log' = error_msgs
    /\ notices' = IF ~found_any THEN Append(notices, "warning: no match") ELSE notices
    /\ pc' = "done"
    /\ UNCHANGED << config, stocks, i, locals, found_any, error_msgs, progress,
                    cards, calls, failures >>

Next ==
    \/ ClickScan
    \/ Sleep
    \/ FetchDaily
    \/ Evaluate
    \/ OnMatch
    \/ Progress
    \/ Finish

Spec == Init /\ [][Next]_vars

(***************************************************************************)
(* Properties.                                                             *)
(***************************************************************************)
Range(s) == {s[k] : k \in DOMAIN s}

\* the tickers whose daily bars were requested, in request order
IsDailyCall(c) == c.op = "daily"

Fetched == [k \in DOMAIN SelectSeq(calls, IsDailyCall) |-> SelectSeq(calls, IsDailyCall)[k].sid]

\* sum of the last k entries of a column
WindowSum(s, k) == SumRange(s, Len(s) - k + 1, Len(s))

CloseCol == df["close"]

VolCol == df[vol_col]

Today == CloseCol[Len(CloseCol)]

\* close > moving average over w bars, the average being defined
CloseAbove(w) == Len(CloseCol) >= w /\ Today * w > WindowSum(CloseCol, w)

\* the 20 bars ending the day before today
BaselineSum == SumRange(VolCol, Len(VolCol) - 20, Len(VolCol) - 1)

\* vol_ratio >= q, the ratio being 0 on a zero baseline
VolRatioAtLeast(q) ==
    IF BaselineSum > 0
    THEN VolCol[Len(VolCol)] * 20 * q.den >= q.num * BaselineSum
    ELSE q.num <= 0

WindowLow(k) == MinRange(CloseCol, Len(CloseCol) - k + 1, Len(CloseCol))

WindowHigh(k) == MaxRange(CloseCol, Len(CloseCol) - k + 1, Len(CloseCol))

DryByWindow ==
    WindowSum(VolCol, params.consolidation_days) * 60
        < WindowSum(VolCol, 60) * params.consolidation_days

DryByToday == VolCol[Len(VolCol)] * 20 < BaselineSum

ContractionCondition ==
    /\ CloseAbove(200)
    /\ (WindowHigh(params.consolidation_days) - WindowLow(params.consolidation_days))
           * params.price_tightness.den
         <= params.price_tightness.num * WindowLow(params.consolidation_days)
    /\ (DryByWindow \/ DryByToday)

FourLineCondition ==
    /\ VolRatioAtLeast(RInt(2))
    /\ CloseAbove(5) /\ CloseAbove(10) /\ CloseAbove(20) /\ CloseAbove(60)

BullishStackCondition ==
    /\ CloseAbove(50)
    /\ Len(CloseCol) >= 200
    /\ WindowSum(CloseCol, 50) * 200 > WindowSum(CloseCol, 200) * 50

VolumeBreakoutCondition == VolRatioAtLeast(params.vol_factor)

ValuationCondition ==
    /\ SumValues(df_eps) > 0
    /\ Today * params.pe_limit.den < params.pe_limit.num * SumValues(df_eps)

\* the condition of the strategy table for the selected mode
TableCondition ==
    CASE strategy_mode = ModeVCP -> ContractionCondition
      [] strategy_mode = ModeFourLine -> FourLineCondition
      [] strategy_mode = ModeMA -> BullishStackCondition
      [] strategy_mode = ModeVolume -> VolumeBreakoutCondition
      [] strategy_mode = ModeValue -> ValuationCondition

\* the trade plan of the current match has been computed
PlanMade == pc = "progress" /\ is_match

\* C1: an exception at one ticker never aborts the run: no exception leaves
\* the loop, the loop advances through the list one ticker at a time, and
\* once it is over every ticker's daily bars were requested, in list order.
C1_FailureNeverAbortsRun ==
    /\ pc # "crashed"
    /\ pc \in {"finish", "done"} => Fetched = stocks
    /\ pc \notin {"idle", "finish", "done"} =>
         Fetched \in {SubSeq(stocks, 1, i - 1), SubSeq(stocks, 1, i)}

\* a completed two-ticker run whose first ticker raised and whose second
\* ticker was still fetched, evaluated and matched
C1_Witness ==
    /\ pc = "done"
    /\ Len(stocks) = 2
    /\ Len(error_msgs) = 1
    /\ error_msgs[1] = Diagnostic(stocks[1], "ProviderUnavailable")
    /\ Len(cards) = 1
    /\ cards[1].sid = stocks[2]

\* C2: every per-ticker failure leaves exactly one diagnostic keyed by that
\* ticker once the ticker has been left.
C2_EveryFailureLeavesOneDiagnostic ==
    \A k \in DOMAIN failures :
        (i > failures[k].idx \/ pc \in {"progress", "finish", "done"}) =>
            Cardinality({m \in DOMAIN error_msgs :
                            error_msgs[m].sid = stocks[failures[k].idx]}) = 1

\* C3: after evaluation the ticker matches exactly when the strategy-table
\* condition of the selected mode holds.
C3_ModeSelectsItsOwnEvaluator ==
    pc = "evaluated" => (is_match <=> TableCondition)

\* C4: target = buy + 2*(buy - stop) with the 2:1 label when buy > stop,
\* and target = buy * 1.10 with the not-applicable label otherwise.
C4_TargetRule ==
    PlanMade =>
        IF RGt(setup.buy_price, setup.stop_loss)
        THEN /\ setup.take_profit =
                  RAdd(setup.buy_price,
                       RMul(RInt(2), RSub(setup.buy_price, setup.stop_loss)))
             /\ setup.risk_reward = "2.0"
        ELSE /\ setup.take_profit = RMul(setup.buy_price, R(110, 100))
             /\ setup.risk_reward = "N/A"

\* C5: entry and stop follow the strategy that matched: contraction uses
\* the close and 0.98 of the 10-bar low, the moving-average and four-line
\* modes use ma5 and 0.98 of ma20, the other modes the close and 0.93 of it.
C5_EntryAndStopByStrategy ==
    PlanMade =>
        IF strategy_mode = ModeVCP
        THEN /\ setup.buy_price = RInt(Today)
             /\ setup.stop_loss = R(WindowLow(10) * 98, 100)
        ELSE IF strategy_mode \in {ModeMA, ModeFourLine}
        THEN /\ setup.buy_price = R(WindowSum(CloseCol, 5), 5)
             /\ setup.stop_loss = R(WindowSum(CloseCol, 20) * 98, 2000)
        ELSE /\ setup.buy_price = RInt(Today)
             /\ setup.stop_loss = R(Today * 93, 100)

\* C6: in valuation mode fewer than four EPS quarters never give a match.
C6_FewerThanFourQuartersNoMatch ==
    (pc = "evaluated" /\ strategy_mode = ModeValue /\ Len(df_eps) < 4) => ~is_match

\* C7: an empty ticker list is reported by the no-valid-codes message only,
\* and the no-match warning appears only after a scan of at least one
\* ticker that matched nothing.
C7_EmptyListReportedDistinctly ==
    pc = "done" =>
        /\ stocks = <<>> => notices = <<"error: no valid codes">>
        /\ "warning: no match" \in Range(notices) => (stocks # <<>> /\ ~found_any)

\* C8: in contraction mode, with a positive low over the consolidation
\* window, the ticker matches exactly when close > ma200, the amplitude is
\* within price_tightness, and the window volume mean is below the 60-bar
\* mean or today's volume is below the mean of the previous 20 bars.
C8_ContractionMatch ==
    (pc = "evaluated" /\ strategy_mode = ModeVCP
        /\ WindowLow(params.consolidation_days) > 0)
    => (is_match <=> ContractionCondition)

\* a contraction match that rests on today's volume alone
C8_Witness ==
    /\ pc = "evaluated"
    /\ strategy_mode = ModeVCP
    /\ WindowLow(params.consolidation_days) > 0
    /\ is_match
    /\ DryByToday
    /\ ~DryByWindow

\* C9: every provider request directly follows a delay.
C9_DelayBeforeEveryRequest ==
    \A k \in DOMAIN calls :
        calls[k].op # "sleep" => (k > 1 /\ calls[k - 1].op = "sleep")

\* the moving-average windows the evaluator of the selected mode reads
WindowsRead ==
    CASE strategy_mode = ModeVCP -> {200}
      [] strategy_mode = ModeFourLine -> {5, 10, 20, 60}
      [] strategy_mode = ModeMA -> {50, 200}
      [] OTHER -> {}

\* C10: every moving average an evaluator reads is over a series of at
\* least that many bars.
C10_MovingAveragesDefined ==
    pc = "evaluated" => \A w \in WindowsRead : Len(CloseCol) >= w

====
